---- MODULE Spec2Model ----
(***************************************************************************)
(* st-trace (src/src/st-trace/trace.c): the SWO trace packet decoder, the  *)
(* register programming sequence, the diagnostics heuristic and main().    *)
(***************************************************************************)
EXTENDS Integers, Sequences, FiniteSets, TLC

VARIABLES
    pc,             \* position of main()
    settings,       \* st_settings_t, as filled by parse_options
    stlink,         \* the probe: handle, the fields main reads, trace capture mode
    et,             \* position inside EnableTrace (index into EnableScript)
    et_ret,         \* return value of EnableTrace
    ops,            \* probe calls issued so far, in order, with their outcome
    faults,         \* number of probe calls that have failed so far
    exit_code,      \* value returned by main, -1 while running
    g_abort_trace,  \* the flag set by the signal handler
    now,            \* wall clock, seconds since main took start_time
    trace,          \* st_trace_t
    buffer,         \* ReadTrace: buffer[1..length] as returned by stlink_trace_read
    i,              \* ReadTrace: loop index (bytes of buffer already decoded)
    out,            \* bytes written to stdout by putchar
    flushed,        \* number of bytes of out flushed by fflush
    log,            \* ELOG/WLOG/ILOG calls, in order
    fed,            \* every byte passed to UpdateTrace so far, in order
    serial          \* ConvertSerialNumberTextToBinary: its arguments and locals

vars == << pc, settings, stlink, et, et_ret, ops, faults, exit_code, g_abort_trace,
           now, trace, buffer, i, out, flushed, log, fed, serial >>

-----------------------------------------------------------------------------
(* Bounds of the model *)

\* total number of trace bytes the probe delivers in one session of SpecDecode
MaxBytes == 5
\* total number of trace bytes the probe delivers in one session of SpecHeader
MaxHeaderBytes == 3
\* longest chunk one stlink_trace_read returns
MaxChunk == 2
\* number of failures (a bad command line, a failing probe call) in one session
MaxFaults == 1
\* total number of trace bytes the probe delivers in one session of Spec
MaxSessionBytes == 1
\* total number of trace bytes the probe delivers in one session of SpecPoll
MaxPollBytes == 2

\* trace bytes the probe delivers in SpecDecode, the source packets at depth:
\*   0x01 target source header         0x09 software source 1, size 1
\*   0x02 software source 0, size 2    0x03 software source 0, size 3
\*   0x0a software source 1, size 2 (and the line feed as a payload)
\*   0x80 no known packet, continued
Bytes == { 1, 9, 2, 3, 10, 128 }

\* trace bytes the probe delivers in SpecHeader, every class of header:
\*   0x01 0x09 0x02 0x03 as above      0x05 hardware source, size 1
\*   0xfb software source 31, size 3   0x70 overflow
\*   0x10 local timestamp              0x90 local timestamp, continued
\*   0x94 global timestamp             0x08 extension
\*   0x00 no known packet              0x80 no known packet, continued
HeaderBytes == { 1, 9, 2, 3, 5, 251, 112, 16, 144, 148, 8, 0, 128 }

\* trace bytes the probe delivers in Spec
SessionBytes == { 128 }

\* trace bytes the probe delivers in SpecPoll
PollBytes == { 1, 16, 128 }

\* values time(NULL) - start_time takes
ClockValues == {0, 9, 10, 11}

-----------------------------------------------------------------------------
(* Integer helpers *)

RECURSIVE BitAnd(_, _)
BitAnd(a, b) ==
    IF a = 0 \/ b = 0 THEN 0
    ELSE (a % 2) * (b % 2) + 2 * BitAnd(a \div 2, b \div 2)

\* uint32_t x; x++.  The counters of a session of the model stay far below
\* 2^32, where the increment wraps.
Inc32(x) == x + 1

\* (uint32_t)(a - b), for a >= b
Sub32(a, b) == a - b

\* a uint32_t that may exceed the range of the model's integers, kept as its two
\* 16 bit halves; U32(n) is the uint32_t of 0 <= n < 2^31
U32(n) == [ hi |-> n \div 65536, lo |-> n % 65536 ]

\* conversion of an int to uint32_t: the value modulo 2^32
ToUint32(x) ==
    IF x >= 0 THEN U32(x)
    ELSE LET y == -(x + 1)
         IN  [ hi |-> 65535 - (y \div 65536), lo |-> 65535 - (y % 65536) ]

\* conversion of a uint32_t to int as two's complement machines do it
ToInt32(a) ==
    IF a.hi < 32768 THEN a.hi * 65536 + a.lo
    ELSE -((65535 - a.hi) * 65536 + (65535 - a.lo)) - 1

\* a + b in uint32_t
Add32(a, b) ==
    LET lo == a.lo + b.lo
    IN  [ hi |-> (a.hi + b.hi + (lo \div 65536)) % 65536, lo |-> lo % 65536 ]

\* a * k in uint32_t, for an integer k >= 0
RECURSIVE Mul32(_, _)
Mul32(a, k) ==
    IF k = 0 THEN U32(0)
    ELSE Add32(IF k % 2 = 1 THEN a ELSE U32(0), Mul32(Add32(a, a), k \div 2))

\* a / d in uint32_t, for an integer 2 < d < 2^30; the quotient is below 2^31
Div32(a, d) ==
    IF a.hi < 32768 THEN (a.hi * 65536 + a.lo) \div d
    ELSE LET low == (a.hi - 32768) * 65536 + a.lo
         IN  (low \div d) + (2147483647 \div d)
                 + (((low % d) + (2147483647 % d) + 1) \div d)

\* a / b in int: the quotient truncated toward zero
IntDiv(a, b) == IF a >= 0 THEN a \div b ELSE -((-a) \div b)

-----------------------------------------------------------------------------
(* Exit codes *)

APP_RESULT_SUCCESS == 0
APP_RESULT_INVALID_PARAMS == 1
APP_RESULT_STLINK_NOT_FOUND == 2
APP_RESULT_STLINK_MISSING_DEVICE == 3
APP_RESULT_STLINK_UNSUPPORTED_DEVICE == 4
APP_RESULT_STLINK_UNSUPPORTED_LINK == 5
APP_RESULT_STLINK_STATE_ERROR == 6

-----------------------------------------------------------------------------
(* Packet header classification *)

TRACE_OP_IS_OVERFLOW(c) == c = 112
TRACE_OP_IS_LOCAL_TIME(c) == BitAnd(c, 15) = 0 /\ BitAnd(c, 112) # 0
TRACE_OP_IS_EXTENSION(c) == BitAnd(c, 11) = 8
TRACE_OP_IS_GLOBAL_TIME(c) == BitAnd(c, 223) = 148
TRACE_OP_IS_SOURCE(c) == BitAnd(c, 3) # 0
TRACE_OP_IS_SW_SOURCE(c) == BitAnd(c, 3) # 0 /\ BitAnd(c, 4) = 0
TRACE_OP_IS_HW_SOURCE(c) == BitAnd(c, 3) # 0 /\ BitAnd(c, 4) = 4
\* the target header taken to be software source 1, size 1
TRACE_OP_IS_TARGET_SOURCE_addr1(c) == c = 9
TRACE_OP_IS_TARGET_SOURCE(c) == c = 1
\* the continuation bit taken to be bit 6
TRACE_OP_GET_CONTINUATION_bit6(c) == BitAnd(c, 64)
TRACE_OP_GET_CONTINUATION(c) == BitAnd(c, 128)
TRACE_OP_GET_SOURCE_SIZE(c) == BitAnd(c, 3)
TRACE_OP_GET_SW_SOURCE_ADDR(c) == c \div 8

-----------------------------------------------------------------------------
(* Parser states *)

TRACE_STATE_IDLE == "IDLE"
TRACE_STATE_TARGET_SOURCE == "TARGET_SOURCE"
TRACE_STATE_SKIP_FRAME == "SKIP_FRAME"
TRACE_STATE_SKIP_4 == "SKIP_4"
TRACE_STATE_SKIP_3 == "SKIP_3"
TRACE_STATE_SKIP_2 == "SKIP_2"
TRACE_STATE_SKIP_1 == "SKIP_1"

trace_state == { TRACE_STATE_IDLE, TRACE_STATE_TARGET_SOURCE, TRACE_STATE_SKIP_FRAME,
                 TRACE_STATE_SKIP_4, TRACE_STATE_SKIP_3, TRACE_STATE_SKIP_2,
                 TRACE_STATE_SKIP_1 }

\* st_trace_t trace = {}
st_trace_t ==
    [ start_time |-> 0, configuration_checked |-> FALSE, state |-> TRACE_STATE_IDLE,
      count_raw_bytes |-> 0, count_target_data |-> 0, count_time_packets |-> 0,
      count_overflow |-> 0, count_error |-> 0,
      unknown_opcodes |-> {}, unknown_sources |-> {} ]

\* one call of ELOG / WLOG / ILOG
Msg(lvl, msg, arg) == [ lvl |-> lvl, msg |-> msg, arg |-> arg ]

\* what a decoder function leaves behind: the updated *trace, its return value,
\* the bytes it wrote to stdout and the messages it logged
Result(t, ret, put, msgs) == [ trace |-> t, ret |-> ret, put |-> put, msgs |-> msgs ]

-----------------------------------------------------------------------------
(* Trace packet decoder *)

\* UpdateTraceIdleOpcode logging an unknown opcode at every occurrence
UpdateTraceIdleOpcode_log_all(t, c, msgs) ==
    LET next == IF TRACE_OP_GET_CONTINUATION(c) # 0
                THEN TRACE_STATE_SKIP_FRAME ELSE TRACE_STATE_IDLE
    IN  IF TRACE_OP_IS_LOCAL_TIME(c) \/ TRACE_OP_IS_GLOBAL_TIME(c)
        THEN Result([t EXCEPT !.count_time_packets = Inc32(@)], next, <<>>, msgs)
        ELSE IF TRACE_OP_IS_EXTENSION(c)
        THEN Result(t, next, <<>>, msgs)
        ELSE Result([t EXCEPT !.unknown_opcodes = @ \cup {c}, !.count_error = Inc32(@)],
                    next, <<>>, Append(msgs, Msg("W", "Unknown opcode", c)))

\* UpdateTraceIdleOpcode testing for the overflow byte before the timestamps
UpdateTraceIdleOpcode_overflow_first(t, c, msgs) ==
    LET next == IF TRACE_OP_GET_CONTINUATION(c) # 0
                THEN TRACE_STATE_SKIP_FRAME ELSE TRACE_STATE_IDLE
        t1 == IF TRACE_OP_IS_OVERFLOW(c) THEN [t EXCEPT !.count_overflow = Inc32(@)] ELSE t
    IN  IF ~TRACE_OP_IS_OVERFLOW(c)
           /\ (TRACE_OP_IS_LOCAL_TIME(c) \/ TRACE_OP_IS_GLOBAL_TIME(c))
        THEN Result([t EXCEPT !.count_time_packets = Inc32(@)], next, <<>>, msgs)
        ELSE IF ~TRACE_OP_IS_OVERFLOW(c) /\ TRACE_OP_IS_EXTENSION(c)
        THEN Result(t, next, <<>>, msgs)
        ELSE LET m1 == IF c \notin t1.unknown_opcodes
                       THEN Append(msgs, Msg("W", "Unknown opcode", c)) ELSE msgs
                 t2 == [t1 EXCEPT !.unknown_opcodes = @ \cup {c},
                                  !.count_error = Inc32(@)]
             IN  Result(t2, next, <<>>, m1)

\* UpdateTraceIdle from the timestamp test on: timestamp, extension, overflow,
\* unknown opcode
UpdateTraceIdleOpcode(t, c, msgs) ==
    LET next == IF TRACE_OP_GET_CONTINUATION(c) # 0
                THEN TRACE_STATE_SKIP_FRAME ELSE TRACE_STATE_IDLE
    IN  IF TRACE_OP_IS_LOCAL_TIME(c) \/ TRACE_OP_IS_GLOBAL_TIME(c)
        THEN Result([t EXCEPT !.count_time_packets = Inc32(@)], next, <<>>, msgs)
        ELSE IF TRACE_OP_IS_EXTENSION(c)
        THEN Result(t, next, <<>>, msgs)
        ELSE LET t1 == IF TRACE_OP_IS_OVERFLOW(c)
                       THEN [t EXCEPT !.count_overflow = Inc32(@)] ELSE t
                 m1 == IF c \notin t1.unknown_opcodes
                       THEN Append(msgs, Msg("W", "Unknown opcode", c)) ELSE msgs
                 t2 == [t1 EXCEPT !.unknown_opcodes = @ \cup {c},
                                  !.count_error = Inc32(@)]
             IN  Result(t2, next, <<>>, m1)

\* UpdateTraceIdle skipping three bytes, not four, for size code 3
UpdateTraceIdle_skip3(t, c) ==
    IF TRACE_OP_IS_TARGET_SOURCE(c)
    THEN Result(t, TRACE_STATE_TARGET_SOURCE, <<>>, <<>>)
    ELSE IF TRACE_OP_IS_SOURCE(c)
    THEN LET size == TRACE_OP_GET_SOURCE_SIZE(c)
         IN  Result(t, IF size = 1 THEN TRACE_STATE_SKIP_1
                       ELSE IF size = 2 THEN TRACE_STATE_SKIP_2
                       ELSE TRACE_STATE_SKIP_3, <<>>, <<>>)
    ELSE UpdateTraceIdleOpcode(t, c, <<>>)

\* unknown_sources is a 32 bit mask indexed by the 5 bit address (1 << 31 taken as
\* bit 31, as compilers produce it); it is kept as the set of addresses whose bit
\* is set
UpdateTraceIdle(t, c) ==
    IF TRACE_OP_IS_TARGET_SOURCE(c)
    THEN Result(t, TRACE_STATE_TARGET_SOURCE, <<>>, <<>>)
    ELSE IF TRACE_OP_IS_SOURCE(c)
    THEN LET size == TRACE_OP_GET_SOURCE_SIZE(c)
             addr == TRACE_OP_GET_SW_SOURCE_ADDR(c)
             m1 == IF TRACE_OP_IS_SW_SOURCE(c) /\ addr \notin t.unknown_sources
                   THEN << Msg("W", "Unsupported source", addr) >> ELSE <<>>
             t1 == IF TRACE_OP_IS_SW_SOURCE(c)
                   THEN [t EXCEPT !.unknown_sources = @ \cup {addr}] ELSE t
         IN  IF size = 1 THEN Result(t1, TRACE_STATE_SKIP_1, <<>>, m1)
             ELSE IF size = 2 THEN Result(t1, TRACE_STATE_SKIP_2, <<>>, m1)
             ELSE IF size = 3 THEN Result(t1, TRACE_STATE_SKIP_4, <<>>, m1)
             ELSE UpdateTraceIdleOpcode(t1, c, m1)
    ELSE UpdateTraceIdleOpcode(t, c, <<>>)

\* UpdateTrace counting the raw bytes in UpdateTraceIdle only
UpdateTrace_idle_count(t, c) ==
    IF t.state = TRACE_STATE_IDLE
    THEN UpdateTraceIdle([t EXCEPT !.count_raw_bytes = Inc32(@)], c)
    ELSE Result(t, TRACE_STATE_IDLE, <<>>, <<>>)

\* UpdateTrace writing the byte it discards in TRACE_STATE_SKIP_1 to stdout
UpdateTrace_echo_skip1(t, c) ==
    LET t0 == [t EXCEPT !.count_raw_bytes = Inc32(@)]
    IN  CASE t.state = TRACE_STATE_IDLE -> UpdateTraceIdle(t0, c)
          [] t.state = TRACE_STATE_TARGET_SOURCE ->
                Result([t0 EXCEPT !.count_target_data = Inc32(@)],
                       TRACE_STATE_IDLE, << c >>, <<>>)
          [] t.state = TRACE_STATE_SKIP_FRAME ->
                Result(t0, IF TRACE_OP_GET_CONTINUATION(c) # 0
                           THEN TRACE_STATE_SKIP_FRAME ELSE TRACE_STATE_IDLE, <<>>, <<>>)
          [] t.state = TRACE_STATE_SKIP_4 -> Result(t0, TRACE_STATE_SKIP_3, <<>>, <<>>)
          [] t.state = TRACE_STATE_SKIP_3 -> Result(t0, TRACE_STATE_SKIP_2, <<>>, <<>>)
          [] t.state = TRACE_STATE_SKIP_2 -> Result(t0, TRACE_STATE_SKIP_1, <<>>, <<>>)
          [] t.state = TRACE_STATE_SKIP_1 -> Result(t0, TRACE_STATE_IDLE, << c >>, <<>>)
          [] OTHER ->
                Result(t0, TRACE_STATE_IDLE, <<>>, << Msg("E", "Invalid state", 0) >>)

\* the state UpdateTrace returns; ReadTrace stores it in trace->state
UpdateTrace(t, c) ==
    LET t0 == [t EXCEPT !.count_raw_bytes = Inc32(@)]
    IN  CASE t.state = TRACE_STATE_IDLE -> UpdateTraceIdle(t0, c)
          [] t.state = TRACE_STATE_TARGET_SOURCE ->
                Result([t0 EXCEPT !.count_target_data = Inc32(@)],
                       TRACE_STATE_IDLE, << c >>, <<>>)
          [] t.state = TRACE_STATE_SKIP_FRAME ->
                Result(t0, IF TRACE_OP_GET_CONTINUATION(c) # 0
                           THEN TRACE_STATE_SKIP_FRAME ELSE TRACE_STATE_IDLE, <<>>, <<>>)
          [] t.state = TRACE_STATE_SKIP_4 -> Result(t0, TRACE_STATE_SKIP_3, <<>>, <<>>)
          [] t.state = TRACE_STATE_SKIP_3 -> Result(t0, TRACE_STATE_SKIP_2, <<>>, <<>>)
          [] t.state = TRACE_STATE_SKIP_2 -> Result(t0, TRACE_STATE_SKIP_1, <<>>, <<>>)
          [] t.state = TRACE_STATE_SKIP_1 -> Result(t0, TRACE_STATE_IDLE, <<>>, <<>>)
          [] OTHER ->
                Result(t0, TRACE_STATE_IDLE, <<>>, << Msg("E", "Invalid state", 0) >>)

\* putchar(c); if (c == '\n') fflush(stdout);
Flushed(o, f, put) == IF put # <<>> /\ put[Len(put)] = 10 THEN Len(o) + Len(put) ELSE f

-----------------------------------------------------------------------------
(* The poll loop of main: while (!g_abort_trace && ReadTrace(...)) Check... *)

\* sequences over S of length 1 .. n
RECURSIVE SeqsUpTo(_, _)
SeqsUpTo(S, n) ==
    IF n = 0 THEN {}
    ELSE LET shorter == SeqsUpTo(S, n - 1)
         IN  { << b >> : b \in S } \cup shorter
               \cup { Append(s, b) : s \in shorter, b \in S }

\* while (!g_abort_trace && ...
LoopTest ==
    /\ pc = "loop"
    /\ pc' = IF g_abort_trace THEN "teardown" ELSE "read"
    /\ UNCHANGED << settings, stlink, et, et_ret, ops, faults, exit_code, g_abort_trace,
                    now, trace, buffer, i, out, flushed, log, fed, serial >>

\* a ReadTrace that logs the read error and returns true
ReadTraceError_returns_true ==
    /\ pc = "read"
    /\ log' = Append(log, Msg("E", "Error reading trace", 0))
    /\ buffer' = <<>>
    /\ i' = 0
    /\ pc' = "check"
    /\ UNCHANGED << settings, stlink, et, et_ret, ops, faults, exit_code, g_abort_trace,
                    now, trace, out, flushed, fed, serial >>

\* ReadTrace: stlink_trace_read returns a negative length
ReadTraceError ==
    /\ pc = "read"
    /\ log' = Append(log, Msg("E", "Error reading trace", 0))
    /\ buffer' = <<>>
    /\ i' = 0
    /\ pc' = "teardown"
    /\ UNCHANGED << settings, stlink, et, et_ret, ops, faults, exit_code, g_abort_trace,
                    now, trace, out, flushed, fed, serial >>

\* ReadTrace: stlink_trace_read returns 0; usleep(1000); return true
ReadTraceEmpty ==
    /\ pc = "read"
    /\ buffer' = <<>>
    /\ i' = 0
    /\ pc' = "check"
    /\ UNCHANGED << settings, stlink, et, et_ret, ops, faults, exit_code, g_abort_trace,
                    now, trace, out, flushed, log, fed, serial >>

Chunks == SeqsUpTo(Bytes, MaxChunk)
HeaderChunks == SeqsUpTo(HeaderBytes, MaxChunk)
SessionChunks == SeqsUpTo(SessionBytes, MaxChunk)
PollChunks == SeqsUpTo(PollBytes, MaxChunk)

\* a ReadTrace that starts every chunk in TRACE_STATE_IDLE
ReadTraceData_reset_state(chunks, budget) ==
    /\ pc = "read"
    /\ \E chunk \in chunks :
          /\ Len(fed) + Len(chunk) <= budget
          /\ buffer' = chunk
    /\ i' = 0
    /\ trace' = [trace EXCEPT !.state = TRACE_STATE_IDLE]
    /\ pc' = "decode"
    /\ UNCHANGED << settings, stlink, et, et_ret, exit_code, g_abort_trace, ops, faults,
                    now, out, flushed, log, fed, serial >>

\* ReadTrace: stlink_trace_read returns length > 0 bytes in buffer
ReadTraceData(chunks, budget) ==
    /\ pc = "read"
    /\ \E chunk \in chunks :
          /\ Len(fed) + Len(chunk) <= budget
          /\ buffer' = chunk
    /\ i' = 0
    /\ pc' = "decode"
    /\ UNCHANGED << settings, stlink, et, et_ret, ops, faults, exit_code, g_abort_trace,
                    now, trace, out, flushed, log, fed, serial >>

\* ReadTrace: one turn of for (i = 0; i < length; i++) trace->state = UpdateTrace(...)
ReadTraceByte ==
    /\ pc = "decode"
    /\ i < Len(buffer)
    /\ LET c == buffer[i + 1]
           r == UpdateTrace(trace, c)
       IN  /\ trace' = [r.trace EXCEPT !.state = r.ret]
           /\ out' = out \o r.put
           /\ flushed' = Flushed(out, flushed, r.put)
           /\ log' = log \o r.msgs
           /\ fed' = Append(fed, c)
    /\ i' = i + 1
    /\ UNCHANGED << pc, settings, stlink, et, et_ret, ops, faults, exit_code,
                    g_abort_trace, now, buffer, serial >>

\* a decode loop that also ends when the signal handler has set the flag
ReadTraceDone_on_abort ==
    /\ pc = "decode"
    /\ i >= Len(buffer) \/ g_abort_trace
    /\ buffer' = <<>>
    /\ i' = 0
    /\ pc' = "check"
    /\ UNCHANGED << settings, stlink, et, et_ret, ops, faults, exit_code, g_abort_trace,
                    now, trace, out, flushed, log, fed, serial >>

\* ReadTrace: the loop ends; return true.  buffer and i are locals of ReadTrace
\* and end with the call
ReadTraceDone ==
    /\ pc = "decode"
    /\ i >= Len(buffer)
    /\ buffer' = <<>>
    /\ i' = 0
    /\ pc' = "check"
    /\ UNCHANGED << settings, stlink, et, et_ret, ops, faults, exit_code, g_abort_trace,
                    now, trace, out, flushed, log, fed, serial >>

-----------------------------------------------------------------------------
(* Diagnostics heuristic *)

RECURSIVE SortedSeq(_)
SortedSeq(S) ==
    IF S = {} THEN <<>>
    ELSE LET m == CHOOSE x \in S : \A y \in S : x <= y
         IN  << m >> \o SortedSeq(S \ {m})

\* the report CheckForConfigurationError logs when a threshold is missed
DiagnosticReport(t) ==
    << Msg("W", "We do not appear to be retrieving data from the stlink correctly", 0),
       Msg("W", "Raw Bytes", t.count_raw_bytes),
       Msg("W", "Target Data", t.count_target_data),
       Msg("W", "Time Packets", t.count_time_packets),
       Msg("W", "Overlow Count", t.count_overflow),
       Msg("W", "Errors", t.count_error) >>
    \o [ k \in 1 .. Cardinality(t.unknown_opcodes) |->
           Msg("W", "Unknown Opcode", SortedSeq(t.unknown_opcodes)[k]) ]
    \o [ k \in 1 .. Cardinality(t.unknown_sources) |->
           Msg("W", "Unknown Source", SortedSeq(t.unknown_sources)[k]) ]
    \o << Msg("W", "Check that the clock frequency is set correctly", 0) >>

\* CheckForConfigurationError reporting only when every threshold is missed
CheckForConfigurationError_all_missed(t, time) ==
    LET elapsed_time_s == Sub32(time, t.start_time)
    IN  IF t.configuration_checked \/ elapsed_time_s < 10
        THEN Result(t, TRUE, <<>>, <<>>)
        ELSE LET t1 == [t EXCEPT !.configuration_checked = TRUE]
             IN  IF /\ t1.count_raw_bytes < 100
                    /\ t1.count_error > 1
                    /\ t1.count_time_packets < 10
                 THEN Result(t1, TRUE, <<>>, DiagnosticReport(t1))
                 ELSE Result(t1, TRUE, <<>>, <<>>)

\* CheckForConfigurationError without trace->configuration_checked = true
CheckForConfigurationError_no_flag(t, time) ==
    LET elapsed_time_s == Sub32(time, t.start_time)
    IN  IF t.configuration_checked \/ elapsed_time_s < 10
        THEN Result(t, TRUE, <<>>, <<>>)
        ELSE IF \/ t.count_raw_bytes < 100
                \/ t.count_error > 1
                \/ t.count_time_packets < 10
             THEN Result(t, TRUE, <<>>, DiagnosticReport(t))
             ELSE Result(t, TRUE, <<>>, <<>>)

\* time is the value time(NULL) returns
CheckForConfigurationError(t, time) ==
    LET elapsed_time_s == Sub32(time, t.start_time)
    IN  IF t.configuration_checked \/ elapsed_time_s < 10
        THEN Result(t, TRUE, <<>>, <<>>)
        ELSE LET t1 == [t EXCEPT !.configuration_checked = TRUE]
             IN  IF \/ t1.count_raw_bytes < 100
                    \/ t1.count_error > 1
                    \/ t1.count_time_packets < 10
                 THEN Result(t1, TRUE, <<>>, DiagnosticReport(t1))
                 ELSE Result(t1, TRUE, <<>>, <<>>)

\* main: the body of the poll loop
MainCheckForConfigurationError ==
    /\ pc = "check"
    /\ LET r == CheckForConfigurationError(trace, now)
       IN  /\ trace' = r.trace
           /\ log' = log \o r.msgs
    /\ pc' = "loop"
    /\ UNCHANGED << settings, stlink, et, et_ret, ops, faults, exit_code, g_abort_trace,
                    now, buffer, i, out, flushed, fed, serial >>

\* the wall clock advances while the poll loop runs
Tick ==
    /\ pc \in { "loop", "read", "decode", "check" }
    /\ \E t \in ClockValues : t > now /\ now' = t
    /\ UNCHANGED << pc, settings, stlink, et, et_ret, ops, faults, exit_code,
                    g_abort_trace, trace, buffer, i, out, flushed, log, fed, serial >>

\* abort_trace, the handler of SIGINT, SIGTERM, SIGSEGV and SIGPIPE
abort_trace ==
    /\ pc # "exit"
    /\ ~g_abort_trace
    /\ g_abort_trace' = TRUE
    /\ UNCHANGED << pc, settings, stlink, et, et_ret, ops, faults, exit_code,
                    now, trace, buffer, i, out, flushed, log, fed, serial >>

-----------------------------------------------------------------------------
(* Probe calls *)

\* one call of the probe driver: its name, the register it addresses, the value
\* it carries and whether it succeeded
Op(op, reg, val, ok) == [ op |-> op, reg |-> reg, val |-> val, ok |-> ok ]

\* the outcomes of a probe call or of parsing the command line: it may fail while
\* the session's failures are below MaxFaults
FailChoices == IF faults < MaxFaults THEN BOOLEAN ELSE { FALSE }

CountFault(fail) == IF fail THEN faults + 1 ELSE faults

\* main returns
Exit(code) ==
    /\ pc' = "exit"
    /\ exit_code' = code

-----------------------------------------------------------------------------
(* Register programming sequence: EnableTrace *)

\* the trace sample frequency of the probe, in Hz
STLINK_TRACE_FREQUENCY == 2000000

\* --clock values given on the command line; 0 is no --clock
CoreClocks == { 0, 72 }

\* --clock values of the runs of EnableTrace alone: none, a clock below the trace
\* frequency, the clock of prescaler 0, a usual clock, a clock whose Hz exceed int
EnableClocks == { 0, 1, 2, 72, 3000 }

\* values the target's TPI_ACPR holds when the probe attaches
AcprValues == { U32(0), U32(35) }

\* an EnableTrace that sets the sync counter before it unlocks the ITM
EnableScript_unlock_late ==
    << [ kind |-> "force_debug",    reg |-> "" ],
       [ kind |-> "reset",          reg |-> "" ],
       [ kind |-> "write",          reg |-> "DCB_DHCSR" ],
       [ kind |-> "write",          reg |-> "DCB_DEMCR" ],
       [ kind |-> "write",          reg |-> "FP_CTRL" ],
       [ kind |-> "write",          reg |-> "DWT_FUNCTION0" ],
       [ kind |-> "write",          reg |-> "DWT_FUNCTION1" ],
       [ kind |-> "write",          reg |-> "DWT_FUNCTION2" ],
       [ kind |-> "write",          reg |-> "DWT_FUNCTION3" ],
       [ kind |-> "write",          reg |-> "DWT_CTRL" ],
       [ kind |-> "write",          reg |-> "DBGMCU_CR" ],
       [ kind |-> "trace_enable",   reg |-> "" ],
       [ kind |-> "write",          reg |-> "TPI_CSPSR" ],
       [ kind |-> "prescaler",      reg |-> "TPI_ACPR" ],
       [ kind |-> "read_prescaler", reg |-> "TPI_ACPR" ],
       [ kind |-> "write",          reg |-> "TPI_FFCR" ],
       [ kind |-> "write",          reg |-> "TPI_SPPR" ],
       [ kind |-> "write",          reg |-> "ITM_TCC" ],
       [ kind |-> "write",          reg |-> "ITM_LAR" ],
       [ kind |-> "write",          reg |-> "ITM_TCR" ],
       [ kind |-> "write",          reg |-> "ITM_TER" ],
       [ kind |-> "write",          reg |-> "ITM_TPR" ],
       [ kind |-> "write",          reg |-> "DWT_CTRL" ],
       [ kind |-> "write",          reg |-> "DCB_DEMCR" ] >>

\* the statements of EnableTrace in program order
EnableScript ==
    << [ kind |-> "force_debug",    reg |-> "" ],
       [ kind |-> "reset",          reg |-> "" ],
       [ kind |-> "write",          reg |-> "DCB_DHCSR" ],
       [ kind |-> "write",          reg |-> "DCB_DEMCR" ],
       [ kind |-> "write",          reg |-> "FP_CTRL" ],
       [ kind |-> "write",          reg |-> "DWT_FUNCTION0" ],
       [ kind |-> "write",          reg |-> "DWT_FUNCTION1" ],
       [ kind |-> "write",          reg |-> "DWT_FUNCTION2" ],
       [ kind |-> "write",          reg |-> "DWT_FUNCTION3" ],
       [ kind |-> "write",          reg |-> "DWT_CTRL" ],
       [ kind |-> "write",          reg |-> "DBGMCU_CR" ],
       [ kind |-> "trace_enable",   reg |-> "" ],
       [ kind |-> "write",          reg |-> "TPI_CSPSR" ],
       [ kind |-> "prescaler",      reg |-> "TPI_ACPR" ],
       [ kind |-> "read_prescaler", reg |-> "TPI_ACPR" ],
       [ kind |-> "write",          reg |-> "TPI_FFCR" ],
       [ kind |-> "write",          reg |-> "TPI_SPPR" ],
       [ kind |-> "write",          reg |-> "ITM_LAR" ],
       [ kind |-> "write",          reg |-> "ITM_TCC" ],
       [ kind |-> "write",          reg |-> "ITM_TCR" ],
       [ kind |-> "write",          reg |-> "ITM_TER" ],
       [ kind |-> "write",          reg |-> "ITM_TPR" ],
       [ kind |-> "write",          reg |-> "DWT_CTRL" ],
       [ kind |-> "write",          reg |-> "DCB_DEMCR" ] >>

AtStatement(kind) ==
    /\ pc = "enable"
    /\ et <= Len(EnableScript)
    /\ EnableScript[et].kind = kind

\* uint32_t prescaler = core_frequency_mhz * 1000000 / STLINK_TRACE_FREQUENCY - 1:
\* the values the statement can give.  The operands are int; the result is
\* converted to uint32_t.  Above 2147 MHz the product overflows int, which is
\* undefined: a build either wraps the product or folds the expression to
\* core_frequency_mhz / 2 - 1
Prescaler(mhz) ==
    IF mhz <= 2147483647 \div 1000000
    THEN { ToUint32(IntDiv(mhz * 1000000, STLINK_TRACE_FREQUENCY) - 1) }
    ELSE { ToUint32(IntDiv(ToInt32(Mul32(U32(mhz), 1000000)), STLINK_TRACE_FREQUENCY) - 1),
           ToUint32(IntDiv(mhz, STLINK_TRACE_FREQUENCY \div 1000000) - 1) }

\* a probe call of EnableTrace whose failure ends EnableTrace unless force is set:
\*   if (call(stlink)) { ELOG(msg); if (!settings->force) return false; }
GuardedCall(name, msg, fail) ==
    /\ ops' = Append(ops, Op(name, "", 0, ~fail))
    /\ faults' = CountFault(fail)
    /\ log' = IF fail THEN Append(log, Msg("E", msg, 0)) ELSE log
    /\ IF fail /\ ~settings.force
       THEN /\ et_ret' = FALSE
            /\ pc' = "enable_ret"
            /\ et' = et
       ELSE /\ et' = et + 1
            /\ UNCHANGED << pc, et_ret >>

\* an EnableTrace that gives up on a failed Write32 unless force is set
AfterWrite32_abort(fail) == IF fail /\ ~settings.force THEN "return_false" ELSE "continue"

\* what EnableTrace does after a Write32: Write32 returns nothing, so it goes on
AfterWrite32(fail) == "continue"

\* Write32: write_uint32(q_buf, data); if (stlink_write_mem32(...)) ELOG(...)
Write32(reg, val, fail) ==
    /\ ops' = Append(ops, Op("write32", reg, val, ~fail))
    /\ faults' = CountFault(fail)
    /\ log' = IF fail THEN Append(log, Msg("E", "Unable to set address", et)) ELSE log
    /\ stlink' = IF reg = "TPI_ACPR" /\ ~fail THEN [stlink EXCEPT !.acpr = val] ELSE stlink
    /\ IF AfterWrite32(fail) = "continue"
       THEN /\ et' = et + 1
            /\ UNCHANGED << pc, et_ret >>
       ELSE /\ et_ret' = FALSE
            /\ pc' = "enable_ret"
            /\ et' = et

\* if (stlink_force_debug(stlink)) ...
ET_ForceDebug ==
    /\ AtStatement("force_debug")
    /\ \E fail \in FailChoices :
          GuardedCall("stlink_force_debug", "Unable to debug device", fail)
    /\ UNCHANGED << settings, stlink, exit_code, g_abort_trace, now, trace, buffer, i,
                    out, flushed, fed, serial >>

\* if (settings->reset_board && stlink_reset(stlink)) ...
ET_Reset ==
    /\ AtStatement("reset")
    /\ IF settings.reset_board
       THEN \E fail \in FailChoices :
               GuardedCall("stlink_reset", "Unable to reset device", fail)
       ELSE /\ et' = et + 1
            /\ UNCHANGED << pc, et_ret, ops, faults, log >>
    /\ UNCHANGED << settings, stlink, exit_code, g_abort_trace, now, trace, buffer, i,
                    out, flushed, fed, serial >>

\* Write32(stlink, <register>, <constant>)
ET_Write32 ==
    /\ AtStatement("write")
    /\ \E fail \in FailChoices : Write32(EnableScript[et].reg, U32(0), fail)
    /\ UNCHANGED << settings, exit_code, g_abort_trace, now, trace, buffer, i,
                    out, flushed, fed, serial >>

\* if (stlink_trace_enable(stlink)) ...
ET_TraceEnable ==
    /\ AtStatement("trace_enable")
    /\ \E fail \in FailChoices :
          /\ GuardedCall("stlink_trace_enable", "Unable to turn on tracing in stlink", fail)
          /\ stlink' = [stlink EXCEPT !.tracing = ~fail]
    /\ UNCHANGED << settings, exit_code, g_abort_trace, now, trace, buffer, i,
                    out, flushed, fed, serial >>

\* if (settings->core_frequency_mhz) { ...; Write32(stlink, TPI_ACPR, prescaler); }
ET_Prescaler ==
    /\ AtStatement("prescaler")
    /\ IF settings.core_frequency_mhz # 0
       THEN \E fail \in FailChoices, prescaler \in Prescaler(settings.core_frequency_mhz) :
               Write32("TPI_ACPR", prescaler, fail)
       ELSE /\ et' = et + 1
            /\ UNCHANGED << pc, et_ret, ops, faults, log, stlink >>
    /\ UNCHANGED << settings, exit_code, g_abort_trace, now, trace, buffer, i,
                    out, flushed, fed, serial >>

\* system_clock_speed = (prescaler + 1) * STLINK_TRACE_FREQUENCY;
\* system_clock_speed_mhz = (system_clock_speed + 500000) / 1000000
SystemClockMhz(prescaler) ==
    LET system_clock_speed == Mul32(Add32(prescaler, U32(1)), STLINK_TRACE_FREQUENCY)
    IN  Div32(Add32(system_clock_speed, U32(500000)), 1000000)

\* an EnableTrace that reads the prescaler back only when no clock was given
ET_ReadPrescaler_unless_clock ==
    /\ AtStatement("read_prescaler")
    /\ IF settings.core_frequency_mhz # 0
       THEN UNCHANGED << ops, faults, log >>
       ELSE \E fail \in FailChoices :
            \E prescaler \in IF fail THEN AcprValues ELSE { stlink.acpr } :
               /\ ops' = Append(ops, Op("read32", "TPI_ACPR", prescaler, ~fail))
               /\ faults' = CountFault(fail)
               /\ log' = log
                     \o (IF fail THEN << Msg("E", "Unable to read from address", et) >>
                         ELSE <<>>)
                     \o (IF prescaler # U32(0)
                         THEN << Msg("I", "Trace Port Interface configured to expect MHz",
                                     SystemClockMhz(prescaler)) >>
                         ELSE << Msg("W", "Trace Port Interface not configured", 0) >>)
    /\ et' = et + 1
    /\ UNCHANGED << pc, settings, stlink, et_ret, exit_code, g_abort_trace, now, trace,
                    buffer, i, out, flushed, fed, serial >>

\* uint32_t prescaler = Read32(stlink, TPI_ACPR); if (prescaler) ILOG else WLOG
\* Read32 returns what q_buf holds, the register's value when the read succeeded
ET_ReadPrescaler ==
    /\ AtStatement("read_prescaler")
    /\ \E fail \in FailChoices :
       \E prescaler \in IF fail THEN AcprValues ELSE { stlink.acpr } :
          /\ ops' = Append(ops, Op("read32", "TPI_ACPR", prescaler, ~fail))
          /\ faults' = CountFault(fail)
          /\ log' = log
                \o (IF fail THEN << Msg("E", "Unable to read from address", et) >> ELSE <<>>)
                \o (IF prescaler # U32(0)
                    THEN << Msg("I", "Trace Port Interface configured to expect MHz",
                                SystemClockMhz(prescaler)) >>
                    ELSE << Msg("W", "Trace Port Interface not configured", 0) >>)
    /\ et' = et + 1
    /\ UNCHANGED << pc, settings, stlink, et_ret, exit_code, g_abort_trace, now, trace,
                    buffer, i, out, flushed, fed, serial >>

\* return true
ET_Return ==
    /\ pc = "enable"
    /\ et > Len(EnableScript)
    /\ et_ret' = TRUE
    /\ pc' = "enable_ret"
    /\ UNCHANGED << settings, stlink, et, ops, faults, exit_code, g_abort_trace, now,
                    trace, buffer, i, out, flushed, log, fed, serial >>

-----------------------------------------------------------------------------
(* Serial number: ConvertSerialNumberTextToBinary, called by StLinkConnect *)

\* the size of the binary serial number, scaled down
MaxSerialSize == 2

\* char binary_serial_number[STLINK_SERIAL_MAX_SIZE] = { 0 }
STLINK_SERIAL_MAX_SIZE == MaxSerialSize

\* the characters of a --serial argument: two hex digits and one that is none
SerialChars == { "1", "f", "g" }

\* the longest --serial argument: more than two characters per byte of the buffer
MaxTextLen == 2 * STLINK_SERIAL_MAX_SIZE + 2

\* the locals of a call that has not been made
NoSerial ==
    [ text |-> <<>>, n |-> 0, length |-> 0,
      binary_out |-> [ k \in 0 .. STLINK_SERIAL_MAX_SIZE - 1 |-> 0 ],
      reads |-> {}, writes |-> {} ]

\* the characters that may be found at text[k]: the text, its terminating NUL,
\* and behind the NUL whatever the memory holds
MemAt(text, k) ==
    IF k < Len(text) THEN { text[k + 1] }
    ELSE IF k = Len(text) THEN { "NUL" }
    ELSE SerialChars \cup { "NUL" }

HexValue(c) ==
    CASE c = "1" -> 1
      [] c = "f" -> 15
      [] OTHER   -> -1

\* (uint8_t)strtol(buffer, NULL, 16) for buffer = { b1, b2, 0 }: the value of the
\* longest prefix of hex digits, 0 when there is none
Strtol16(b1, b2) ==
    IF HexValue(b1) < 0 THEN 0
    ELSE IF HexValue(b2) < 0 THEN HexValue(b1)
    ELSE (16 * HexValue(b1) + HexValue(b2)) % 256

\* a loop that does not look at length
ConvertSerialGuard_no_limit(text, n, length) == n < Len(text)

\* n < strlen(text) && length < STLINK_SERIAL_MAX_SIZE
ConvertSerialGuard(text, n, length) ==
    /\ n < Len(text)
    /\ length < STLINK_SERIAL_MAX_SIZE

\* one turn of the loop: memcpy(buffer, text + n, 2); binary_out[length++] = ...
\* n stays far below 2^32.  A write behind the end of binary_out is recorded in
\* writes only
ConvertSerialLoop ==
    /\ pc = "serial"
    /\ ConvertSerialGuard(serial.text, serial.n, serial.length)
    /\ \E b1 \in MemAt(serial.text, serial.n), b2 \in MemAt(serial.text, serial.n + 1) :
          serial' = [ serial EXCEPT
              !.reads = @ \cup { serial.n, serial.n + 1 },
              !.writes = @ \cup { serial.length },
              !.binary_out = IF serial.length < STLINK_SERIAL_MAX_SIZE
                             THEN [ @ EXCEPT ![serial.length] = Strtol16(b1, b2) ]
                             ELSE @,
              !.length = @ + 1,
              !.n = @ + 2 ]
    /\ UNCHANGED << pc, settings, stlink, et, et_ret, ops, faults, exit_code,
                    g_abort_trace, now, trace, buffer, i, out, flushed, log, fed >>

\* the loop ends and the function returns
ConvertSerialReturn ==
    /\ pc = "serial"
    /\ ~ConvertSerialGuard(serial.text, serial.n, serial.length)
    /\ pc' = "serial_done"
    /\ UNCHANGED << settings, stlink, et, et_ret, ops, faults, exit_code, g_abort_trace,
                    now, trace, buffer, i, out, flushed, log, fed, serial >>

-----------------------------------------------------------------------------
(* main *)

\* parse_options and the test of its result.  error is set by an unknown flag or
\* a stray argument; the function fails only if force is not given
MainParseOptions ==
    /\ pc = "parse"
    /\ \E error \in FailChoices, help \in BOOLEAN, version \in BOOLEAN,
          mhz \in CoreClocks, reset \in BOOLEAN, force \in BOOLEAN :
          /\ settings' = [ show_help |-> help, show_version |-> version,
                           core_frequency_mhz |-> mhz, reset_board |-> reset,
                           force |-> force ]
          /\ faults' = CountFault(error)
          /\ log' = IF error
                    THEN Append(log, Msg("E", "Unknown command line argument", 0))
                    ELSE log
          /\ IF error /\ ~force
             THEN Exit(APP_RESULT_INVALID_PARAMS)
             ELSE /\ pc' = "help"
                  /\ UNCHANGED exit_code
    /\ UNCHANGED << stlink, et, et_ret, ops, g_abort_trace, now, trace, buffer, i,
                    out, flushed, fed, serial >>

\* if (settings.show_help) ... if (settings.show_version) ...
MainHelpVersion ==
    /\ pc = "help"
    /\ IF settings.show_help \/ settings.show_version
       THEN Exit(APP_RESULT_SUCCESS)
       ELSE /\ pc' = "connect"
            /\ UNCHANGED exit_code
    /\ UNCHANGED << settings, stlink, et, et_ret, ops, faults, g_abort_trace, now, trace,
                    buffer, i, out, flushed, log, fed, serial >>

\* stlink = StLinkConnect(&settings); if (!stlink) ...
MainConnect ==
    /\ pc = "connect"
    /\ \/ /\ log' = Append(log, Msg("E", "Unable to locate an stlink", 0))
          /\ Exit(APP_RESULT_STLINK_NOT_FOUND)
          /\ UNCHANGED << stlink, faults >>
       \/ \E known \in BOOLEAN, has_trace \in BOOLEAN, has_swo \in BOOLEAN,
             acpr \in AcprValues :
             /\ stlink' = [ handle |-> "open", chip_known |-> known,
                            has_trace |-> has_trace, has_swo |-> has_swo,
                            tracing |-> FALSE, acpr |-> acpr ]
             /\ pc' = "chk_device"
             /\ UNCHANGED << exit_code, log, faults >>
    /\ UNCHANGED << settings, et, et_ret, ops, g_abort_trace, now, trace, buffer, i,
                    out, flushed, fed, serial >>

\* a check of main on a field of the probe:
\*   if (<field is bad>) { ELOG(msg); if (!settings.force) return code; }
MainCheck(at, bad, msg, code, next) ==
    /\ pc = at
    /\ log' = IF bad THEN Append(log, Msg("E", msg, 0)) ELSE log
    /\ IF bad /\ ~settings.force
       THEN Exit(code)
       ELSE /\ pc' = next
            /\ UNCHANGED exit_code
    /\ UNCHANGED << settings, stlink, et, et_ret, ops, faults, g_abort_trace, now, trace,
                    buffer, i, out, flushed, fed, serial >>

\* if (stlink->chip_id == STLINK_CHIPID_UNKNOWN) ...
MainCheckDevice ==
    MainCheck("chk_device", ~stlink.chip_known,
              "Your stlink is not connected to a device",
              APP_RESULT_STLINK_MISSING_DEVICE, "chk_link")

\* the check of the probe's trace flag returning the code of the chip check
MainCheckLink_device_code ==
    MainCheck("chk_link", ~stlink.has_trace,
              "Your stlink does not support tracing",
              APP_RESULT_STLINK_UNSUPPORTED_DEVICE, "chk_swo")

\* if (!(stlink->version.flags & STLINK_F_HAS_TRACE)) ...
MainCheckLink ==
    MainCheck("chk_link", ~stlink.has_trace,
              "Your stlink does not support tracing",
              APP_RESULT_STLINK_UNSUPPORTED_LINK, "chk_swo")

\* if (!(stlink->chip_flags & CHIP_F_HAS_SWO_TRACING)) ...
MainCheckSwo ==
    MainCheck("chk_swo", ~stlink.has_swo,
              "We do not support SWO output for device",
              APP_RESULT_STLINK_UNSUPPORTED_DEVICE, "call_enable")

\* main calls EnableTrace(stlink, &settings)
MainCallEnableTrace ==
    /\ pc = "call_enable"
    /\ pc' = "enable"
    /\ et' = 1
    /\ UNCHANGED << settings, stlink, et_ret, ops, faults, exit_code, g_abort_trace, now,
                    trace, buffer, i, out, flushed, log, fed, serial >>

\* if (!EnableTrace(...)) { ELOG(...); if (!settings.force) return ...; }
MainEnableTraceReturned ==
    /\ pc = "enable_ret"
    /\ log' = IF ~et_ret THEN Append(log, Msg("E", "Unable to enable trace mode", 0))
              ELSE log
    /\ IF ~et_ret /\ ~settings.force
       THEN Exit(APP_RESULT_STLINK_STATE_ERROR)
       ELSE /\ pc' = "run"
            /\ UNCHANGED exit_code
    /\ UNCHANGED << settings, stlink, et, et_ret, ops, faults, g_abort_trace, now, trace,
                    buffer, i, out, flushed, fed, serial >>

\* a main that logs a failure of stlink_run and goes on, force or not
MainRun_unchecked ==
    /\ pc = "run"
    /\ \E fail \in FailChoices :
          /\ ops' = Append(ops, Op("stlink_run", "", 0, ~fail))
          /\ faults' = CountFault(fail)
          /\ log' = IF fail THEN Append(log, Msg("E", "Unable to run device", 0)) ELSE log
    /\ pc' = "start"
    /\ UNCHANGED << settings, stlink, et, et_ret, exit_code, g_abort_trace, now, trace,
                    buffer, i, out, flushed, fed, serial >>

\* if (stlink_run(stlink)) { ELOG(...); if (!settings.force) return ...; }
MainRun ==
    /\ pc = "run"
    /\ \E fail \in FailChoices :
          /\ ops' = Append(ops, Op("stlink_run", "", 0, ~fail))
          /\ faults' = CountFault(fail)
          /\ log' = IF fail THEN Append(log, Msg("E", "Unable to run device", 0)) ELSE log
          /\ IF fail /\ ~settings.force
             THEN Exit(APP_RESULT_STLINK_STATE_ERROR)
             ELSE /\ pc' = "start"
                  /\ UNCHANGED exit_code
    /\ UNCHANGED << settings, stlink, et, et_ret, g_abort_trace, now, trace, buffer, i,
                    out, flushed, fed, serial >>

\* ILOG("Reading Trace\n"); st_trace_t trace = {}; trace.start_time = time(NULL);
MainStartTrace ==
    /\ pc = "start"
    /\ log' = Append(log, Msg("I", "Reading Trace", 0))
    /\ trace' = [st_trace_t EXCEPT !.start_time = now]
    /\ pc' = "loop"
    /\ UNCHANGED << settings, stlink, et, et_ret, ops, faults, exit_code, g_abort_trace,
                    now, buffer, i, out, flushed, fed, serial >>

\* stlink_trace_disable(stlink); stlink_close(stlink); return APP_RESULT_SUCCESS;
MainTeardown ==
    /\ pc = "teardown"
    /\ ops' = ops \o << Op("stlink_trace_disable", "", 0, TRUE),
                        Op("stlink_close", "", 0, TRUE) >>
    /\ stlink' = [stlink EXCEPT !.tracing = FALSE, !.handle = "closed"]
    /\ Exit(APP_RESULT_SUCCESS)
    /\ UNCHANGED << settings, et, et_ret, faults, g_abort_trace, now, trace, buffer, i,
                    out, flushed, log, fed, serial >>

-----------------------------------------------------------------------------
(* Specifications *)

\* the state main starts in
Init ==
    /\ pc = "parse"
    /\ settings = [ show_help |-> FALSE, show_version |-> FALSE, core_frequency_mhz |-> 0,
                    reset_board |-> TRUE, force |-> FALSE ]
    /\ stlink = [ handle |-> "none", chip_known |-> FALSE, has_trace |-> FALSE,
                  has_swo |-> FALSE, tracing |-> FALSE, acpr |-> U32(0) ]
    /\ et = 0
    /\ et_ret = FALSE
    /\ ops = <<>>
    /\ faults = 0
    /\ exit_code = -1
    /\ g_abort_trace = FALSE
    /\ now = 0
    /\ trace = st_trace_t
    /\ buffer = <<>>
    /\ i = 0
    /\ out = <<>>
    /\ flushed = 0
    /\ log = <<>>
    /\ fed = <<>>
    /\ serial = NoSerial

Startup ==
    \/ MainParseOptions \/ MainHelpVersion \/ MainConnect
    \/ MainCheckDevice \/ MainCheckLink \/ MainCheckSwo
    \/ MainCallEnableTrace
    \/ ET_ForceDebug \/ ET_Reset \/ ET_Write32 \/ ET_TraceEnable \/ ET_Prescaler
    \/ ET_ReadPrescaler \/ ET_Return
    \/ MainEnableTraceReturned \/ MainRun \/ MainStartTrace

\* the whole program
Next ==
    \/ Startup
    \/ LoopTest \/ ReadTraceError \/ ReadTraceEmpty
    \/ ReadTraceData(SessionChunks, MaxSessionBytes)
    \/ ReadTraceByte \/ ReadTraceDone
    \/ MainCheckForConfigurationError \/ MainTeardown
    \/ abort_trace

Spec == Init /\ [][Next]_vars

\* the probe calls of a start without failure, with reset and without --clock
CleanCall(s, acpr) ==
    CASE s.kind = "force_debug"    -> << Op("stlink_force_debug", "", 0, TRUE) >>
      [] s.kind = "reset"          -> << Op("stlink_reset", "", 0, TRUE) >>
      [] s.kind = "write"          -> << Op("write32", s.reg, U32(0), TRUE) >>
      [] s.kind = "trace_enable"   -> << Op("stlink_trace_enable", "", 0, TRUE) >>
      [] s.kind = "prescaler"      -> <<>>
      [] s.kind = "read_prescaler" -> << Op("read32", s.reg, acpr, TRUE) >>

RECURSIVE CleanCalls(_, _)
CleanCalls(n, acpr) ==
    IF n = 0 THEN <<>> ELSE CleanCalls(n - 1, acpr) \o CleanCall(EnableScript[n], acpr)

\* the state in which main enters the poll loop after a start without failure:
\* default settings, a target whose firmware has set TPI_ACPR
InitRunning ==
    /\ pc = "loop"
    /\ settings = [ show_help |-> FALSE, show_version |-> FALSE, core_frequency_mhz |-> 0,
                    reset_board |-> TRUE, force |-> FALSE ]
    /\ stlink = [ handle |-> "open", chip_known |-> TRUE, has_trace |-> TRUE,
                  has_swo |-> TRUE, tracing |-> TRUE, acpr |-> U32(35) ]
    /\ et = Len(EnableScript) + 1
    /\ et_ret = TRUE
    /\ ops = CleanCalls(Len(EnableScript), U32(35)) \o << Op("stlink_run", "", 0, TRUE) >>
    /\ faults = 0
    /\ exit_code = -1
    /\ g_abort_trace = FALSE
    /\ now = 0
    /\ trace = st_trace_t
    /\ buffer = <<>>
    /\ i = 0
    /\ out = <<>>
    /\ flushed = 0
    /\ log = << Msg("I", "Trace Port Interface configured to expect MHz", 72),
                Msg("I", "Reading Trace", 0) >>
    /\ fed = <<>>
    /\ serial = NoSerial

\* the poll loop decoding what the probe delivers
NextDecode ==
    \/ LoopTest \/ ReadTraceError \/ ReadTraceEmpty
    \/ ReadTraceData(Chunks, MaxBytes)
    \/ ReadTraceByte \/ ReadTraceDone
    \/ MainCheckForConfigurationError \/ MainTeardown

SpecDecode == InitRunning /\ [][NextDecode]_vars

\* the poll loop decoding headers of every class
NextHeader ==
    \/ LoopTest \/ ReadTraceError \/ ReadTraceEmpty
    \/ ReadTraceData(HeaderChunks, MaxHeaderBytes)
    \/ ReadTraceByte \/ ReadTraceDone
    \/ MainCheckForConfigurationError \/ MainTeardown

SpecHeader == InitRunning /\ [][NextHeader]_vars

\* the poll loop with the wall clock and the signal handler
NextPoll ==
    \/ LoopTest \/ ReadTraceError \/ ReadTraceEmpty
    \/ ReadTraceData(PollChunks, MaxPollBytes)
    \/ ReadTraceByte \/ ReadTraceDone
    \/ MainCheckForConfigurationError \/ MainTeardown
    \/ Tick \/ abort_trace

SpecPoll == InitRunning /\ [][NextPoll]_vars

\* StLinkConnect converting the text of a --serial argument
InitSerial ==
    /\ pc = "serial"
    /\ settings = [ show_help |-> FALSE, show_version |-> FALSE, core_frequency_mhz |-> 0,
                    reset_board |-> TRUE, force |-> FALSE ]
    /\ stlink = [ handle |-> "none", chip_known |-> FALSE, has_trace |-> FALSE,
                  has_swo |-> FALSE, tracing |-> FALSE, acpr |-> U32(0) ]
    /\ et = 0
    /\ et_ret = FALSE
    /\ ops = <<>>
    /\ faults = 0
    /\ exit_code = -1
    /\ g_abort_trace = FALSE
    /\ now = 0
    /\ trace = st_trace_t
    /\ buffer = <<>>
    /\ i = 0
    /\ out = <<>>
    /\ flushed = 0
    /\ log = <<>>
    /\ fed = <<>>
    /\ \E text \in SeqsUpTo(SerialChars, MaxTextLen) \cup { <<>> } :
          serial = [ NoSerial EXCEPT !.text = text ]

NextSerial == ConvertSerialLoop \/ ConvertSerialReturn

\* the loop is not suspended for ever
SpecSerial == InitSerial /\ [][NextSerial]_vars /\ WF_vars(NextSerial)

\* the poll loop is not suspended for ever: a read in flight returns
SpecPollFair == SpecPoll /\ WF_vars(NextPoll)

\* main calls EnableTrace: every check of main has passed, the settings are those
\* of the command line
InitEnable ==
    /\ pc = "enable"
    /\ \E mhz \in EnableClocks, reset \in BOOLEAN, force \in BOOLEAN :
          settings = [ show_help |-> FALSE, show_version |-> FALSE,
                       core_frequency_mhz |-> mhz, reset_board |-> reset, force |-> force ]
    /\ \E acpr \in AcprValues :
          stlink = [ handle |-> "open", chip_known |-> TRUE, has_trace |-> TRUE,
                     has_swo |-> TRUE, tracing |-> FALSE, acpr |-> acpr ]
    /\ et = 1
    /\ et_ret = FALSE
    /\ ops = <<>>
    /\ faults = 0
    /\ exit_code = -1
    /\ g_abort_trace = FALSE
    /\ now = 0
    /\ trace = st_trace_t
    /\ buffer = <<>>
    /\ i = 0
    /\ out = <<>>
    /\ flushed = 0
    /\ log = <<>>
    /\ fed = <<>>
    /\ serial = NoSerial

\* EnableTrace from its call to its return
NextEnable ==
    \/ ET_ForceDebug \/ ET_Reset \/ ET_Write32 \/ ET_TraceEnable \/ ET_Prescaler
    \/ ET_ReadPrescaler \/ ET_Return

SpecEnable == InitEnable /\ [][NextEnable]_vars

\* one turn of the for loop of ReadTrace on the session p: trace, stdout, the
\* flushed part of stdout and the log
ReplayByte(p, c) ==
    LET r == UpdateTrace(p.trace, c)
    IN  [ trace |-> [r.trace EXCEPT !.state = r.ret],
          out |-> p.out \o r.put,
          flushed |-> Flushed(p.out, p.flushed, r.put),
          log |-> p.log \o r.msgs ]

\* the first n turns of the for loop of ReadTrace on buffer s, in a session that
\* has decoded nothing yet
RECURSIVE ReplayUpTo(_, _)
ReplayUpTo(s, n) ==
    IF n = 0
    THEN [ trace |-> st_trace_t, out |-> <<>>, flushed |-> 0, log |-> <<>> ]
    ELSE ReplayByte(ReplayUpTo(s, n - 1), s[n])

\* ReadTrace decoding the bytes of s in one chunk
Replay(s) == ReplayUpTo(s, Len(s))

\* a stream of t local timestamps (0x10), x extension headers (0x08) and e
\* unknown opcodes (0x00)
WarmStream(t, x, e) ==
    [ k \in 1 .. t |-> 16 ] \o [ k \in 1 .. x |-> 8 ] \o [ k \in 1 .. e |-> 0 ]

\* streams that bring the counters next to the thresholds of the heuristic
WarmStreams ==
    { WarmStream(t, n - t - e, e) : t \in { 9, 10 }, n \in { 99, 100 }, e \in { 1, 2 } }

\* the poll loop of a session whose first stlink_trace_read has returned one of
\* WarmStreams
InitWarm ==
    /\ pc = "decode"
    /\ settings = [ show_help |-> FALSE, show_version |-> FALSE, core_frequency_mhz |-> 0,
                    reset_board |-> TRUE, force |-> FALSE ]
    /\ stlink = [ handle |-> "open", chip_known |-> TRUE, has_trace |-> TRUE,
                  has_swo |-> TRUE, tracing |-> TRUE, acpr |-> U32(35) ]
    /\ et = Len(EnableScript) + 1
    /\ et_ret = TRUE
    /\ ops = CleanCalls(Len(EnableScript), U32(35)) \o << Op("stlink_run", "", 0, TRUE) >>
    /\ faults = 0
    /\ exit_code = -1
    /\ g_abort_trace = FALSE
    /\ now = 0
    /\ trace = st_trace_t
    /\ buffer \in WarmStreams
    /\ i = 0
    /\ out = <<>>
    /\ flushed = 0
    /\ log = << Msg("I", "Trace Port Interface configured to expect MHz", 72),
                Msg("I", "Reading Trace", 0) >>
    /\ fed = <<>>
    /\ serial = NoSerial

\* the poll loop going on from there
NextWarm ==
    \/ LoopTest \/ ReadTraceError \/ ReadTraceEmpty
    \/ ReadTraceData(PollChunks, 100 + MaxPollBytes)
    \/ ReadTraceByte \/ ReadTraceDone
    \/ MainCheckForConfigurationError \/ MainTeardown
    \/ Tick \/ abort_trace

SpecWarm == InitWarm /\ [][NextWarm]_vars

\* InitRunning is a state of the whole program: Spec reaches it
InitRunningReached == InitRunning

-----------------------------------------------------------------------------
(* Claims about the decoder *)

\* the header of a software source packet: address in bits 7..3, size code in bits 1..0
SwSourceHeader(addr, size) == addr * 8 + size

\* s is a sequence of complete two byte packets with header h
IsPackets(s, h) ==
    /\ Len(s) % 2 = 0
    /\ \A k \in 1 .. (Len(s) \div 2) : s[2 * k - 1] = h

Payloads(s) == [ k \in 1 .. (Len(s) \div 2) |-> s[2 * k] ]

\* the bytes fed so far are packets with header h and their payloads, and nothing
\* else, are on stdout and counted
PacketsReproduced(h) ==
    IsPackets(fed, h) =>
        /\ out = Payloads(fed)
        /\ trace.count_target_data = Len(fed) \div 2

\* C1 as stated: packets of software source 1, size 1 (header 0x09), fed from
\* Idle, put exactly their payload bytes on stdout, in order, and count them
C1_Address1 == PacketsReproduced(SwSourceHeader(1, 1))

\* C1 as amended: packets of software source 0, size 1 (header 0x01), fed from
\* Idle, put exactly their payload bytes on stdout, in order, and count them
C1_TargetPackets == PacketsReproduced(SwSourceHeader(0, 1))

\* two packets with header 0x01 and different payloads have been decoded
C1_Witness ==
    /\ Len(fed) = 4
    /\ IsPackets(fed, 1)
    /\ fed[2] # fed[4]
    /\ out = << fed[2], fed[4] >>

\* C2: whatever was fed, the parser is in one of its seven states, the branch
\* "Invalid state" was never taken, and count_raw_bytes is the number of bytes fed
C2_OneTransitionPerByte ==
    /\ trace.state \in trace_state
    /\ trace.count_raw_bytes = Len(fed)
    /\ \A k \in 1 .. Len(log) : log[k].msg # "Invalid state"

\* three bytes were fed, the last two of them outside Idle
C2_Witness ==
    /\ Len(fed) = 3
    /\ fed[1] = 2
    /\ trace.state = TRACE_STATE_IDLE
    /\ trace.count_raw_bytes = 3

\* ReadTrace is about to pass a byte to UpdateTrace
Feeding ==
    /\ pc = "decode"
    /\ i < Len(buffer)

\* the byte it is about to pass
Fed == buffer[i + 1]

\* C3: byte 0x70 received in Idle increments count_overflow and count_error and
\* is recorded in unknown_opcodes
C3_OverflowCountedTwice ==
    [][ Feeding /\ trace.state = TRACE_STATE_IDLE /\ Fed = 112 =>
          /\ trace'.count_overflow = trace.count_overflow + 1
          /\ trace'.count_error = trace.count_error + 1
          /\ 112 \in trace'.unknown_opcodes ]_vars

\* the fields of *trace other than state and count_raw_bytes, stdout and the log
Effects == << trace.count_target_data, trace.count_time_packets, trace.count_overflow,
              trace.count_error, trace.unknown_opcodes, trace.unknown_sources,
              trace.configuration_checked, out, flushed >>

Counters == << trace.count_target_data, trace.count_time_packets, trace.count_overflow,
               trace.count_error >>

\* the parser state with n payload bytes left to discard
SkipState(n) ==
    CASE n = 0 -> TRACE_STATE_IDLE
      [] n = 1 -> TRACE_STATE_SKIP_1
      [] n = 2 -> TRACE_STATE_SKIP_2
      [] n = 3 -> TRACE_STATE_SKIP_3
      [] n = 4 -> TRACE_STATE_SKIP_4

\* payload bytes of a source packet with size code s
PayloadLength(s) == CASE s = 1 -> 1 [] s = 2 -> 2 [] s = 3 -> 4

\* C4: a source header other than the target header, received in Idle, with size
\* code s leaves PayloadLength(s) bytes to discard; each of the next bytes,
\* whatever its value, is discarded, leaving one less, with nothing written and
\* no counter but count_raw_bytes changed, until the parser is back in Idle
C4_SourceSkipped ==
    [][ Feeding =>
          /\ trace.state = TRACE_STATE_IDLE /\ Fed % 4 # 0 /\ Fed # 1
                => trace'.state = SkipState(PayloadLength(Fed % 4))
          /\ \A n \in 1 .. 4 :
                trace.state = SkipState(n)
                    => /\ trace'.state = SkipState(n - 1)
                       /\ Effects' = Effects
                       /\ log' = log
                       /\ trace'.count_raw_bytes = trace.count_raw_bytes + 1 ]_vars

\* header 0x03 and four discarded bytes, the first of them 0x01, were fed and the
\* parser is back in Idle
C4_Witness ==
    /\ Len(fed) = 5
    /\ fed[1] = 3
    /\ fed[2] = 1
    /\ trace.state = TRACE_STATE_IDLE
    /\ out = <<>>
    /\ trace.count_raw_bytes = 5

\* a timestamp header: low nibble zero with bits 6..4 not all zero, or 0x94 / 0xb4
IsTimestampHeader(c) ==
    \/ c % 16 = 0 /\ (c \div 16) % 8 # 0
    \/ c \in { 148, 180 }

\* the state after a byte that ends a packet unless its continuation bit is set
AfterContinuation(c) == IF c >= 128 THEN TRACE_STATE_SKIP_FRAME ELSE TRACE_STATE_IDLE

\* C5: a timestamp header received in Idle increments count_time_packets by one
\* and no other event counter, and leads to SkipFrame if its continuation bit is
\* set, else to Idle; a byte received in SkipFrame changes nothing but
\* count_raw_bytes and leaves SkipFrame exactly if its continuation bit is clear
C5_TimestampSkipped ==
    [][ Feeding =>
          /\ trace.state = TRACE_STATE_IDLE /\ IsTimestampHeader(Fed)
                => /\ trace'.count_time_packets = trace.count_time_packets + 1
                   /\ trace'.count_target_data = trace.count_target_data
                   /\ trace'.count_overflow = trace.count_overflow
                   /\ trace'.count_error = trace.count_error
                   /\ out' = out
                   /\ trace'.state = AfterContinuation(Fed)
          /\ trace.state = TRACE_STATE_SKIP_FRAME
                => /\ trace'.state = AfterContinuation(Fed)
                   /\ Effects' = Effects
                   /\ log' = log
                   /\ trace'.count_raw_bytes = trace.count_raw_bytes + 1 ]_vars

\* header 0x90, a continued byte and a last byte were fed: one timestamp packet,
\* and the parser is back in Idle
C5_Witness ==
    /\ Len(fed) = 3
    /\ fed[1] = 144
    /\ fed[2] >= 128
    /\ fed[3] < 128
    /\ trace.state = TRACE_STATE_IDLE
    /\ trace.count_time_packets = 1

\* number of messages msg with argument arg in the log
Logged(msg, arg) ==
    Cardinality({ k \in 1 .. Len(log) : log[k].msg = msg /\ log[k].arg = arg })

\* no known packet: not a source, a timestamp or an extension header
IsUnknownOpcode(c) ==
    /\ c % 4 = 0
    /\ ~IsTimestampHeader(c)
    /\ (c \div 8) % 2 = 0

\* the header of a software source packet other than the target header
IsUnknownSource(c) ==
    /\ c % 4 # 0
    /\ (c \div 4) % 2 = 0
    /\ c # 1

\* every recorded opcode and source address was logged once, the others never
LoggedOnce ==
    /\ \A c \in trace.unknown_opcodes : Logged("Unknown opcode", c) = 1
    /\ \A a \in trace.unknown_sources : Logged("Unsupported source", a) = 1
    /\ \A k \in 1 .. Len(log) :
          /\ log[k].msg = "Unknown opcode" => log[k].arg \in trace.unknown_opcodes
          /\ log[k].msg = "Unsupported source" => log[k].arg \in trace.unknown_sources

\* C6: the decoder logs an unknown opcode, and an unknown software source address,
\* when it first receives it in Idle and never again, and nothing is ever removed
\* from unknown_opcodes or unknown_sources
C6_LoggedOnce ==
    [][ /\ LoggedOnce'
        /\ trace.unknown_opcodes \subseteq trace'.unknown_opcodes
        /\ trace.unknown_sources \subseteq trace'.unknown_sources
        /\ Feeding /\ trace.state = TRACE_STATE_IDLE /\ IsUnknownOpcode(Fed)
              => Fed \in trace'.unknown_opcodes
        /\ Feeding /\ trace.state = TRACE_STATE_IDLE /\ IsUnknownSource(Fed)
              => (Fed \div 8) \in trace'.unknown_sources ]_vars

\* opcode 0x00 was received in Idle a second time after its warning, source 1 in
\* a second header after its warning
C6_Witness ==
    /\ Len(fed) = 3
    /\ \/ /\ fed[1] = 0 /\ fed[2] = 0
          /\ trace.count_error >= 2
          /\ Logged("Unknown opcode", 0) = 1
       \/ /\ fed[1] = 9 /\ fed[3] = 9
          /\ Logged("Unsupported source", 1) = 1

-----------------------------------------------------------------------------
(* Claims about the diagnostics heuristic *)

\* the number of diagnostic reports in a log
Reports(l) ==
    Cardinality({ k \in 1 .. Len(l) :
        l[k].msg = "We do not appear to be retrieving data from the stlink correctly" })

\* C7: over any number of poll-loop iterations the heuristic evaluates its
\* thresholds at most once: it sets the one-shot flag when it does, only with at
\* least 10 s elapsed since the session's start; a report is logged only in that
\* step; once set the flag is never cleared and no further report follows
C7_DiagnosticsOnce ==
    [][ /\ trace.configuration_checked
              => /\ trace'.configuration_checked
                 /\ Reports(log') = Reports(log)
        /\ ~trace.configuration_checked /\ trace'.configuration_checked
              => Sub32(now, trace.start_time) >= 10
        /\ Reports(log') # Reports(log)
              => /\ ~trace.configuration_checked
                 /\ trace'.configuration_checked
                 /\ Sub32(now, trace.start_time) >= 10
        /\ Reports(log') <= 1 ]_vars

\* the heuristic reported on a session without data, and a later iteration, which
\* decoded two bytes, ran it again
C7_Witness ==
    /\ trace.configuration_checked
    /\ Reports(log) = 1
    /\ \E k \in 1 .. Len(log) : log[k].msg = "Raw Bytes" /\ log[k].arg = 0
    /\ trace.count_raw_bytes = 2
    /\ pc = "loop"
    /\ now = 11

-----------------------------------------------------------------------------
(* Claims about startup and teardown *)

\* a probe call of one of the names failed
HasFailed(names) == \E k \in 1 .. Len(ops) : ops[k].op \in names /\ ~ops[k].ok

HasCalled(name) == \E k \in 1 .. Len(ops) : ops[k].op = name

\* C8 as stated: on every exit path on which a probe handle was obtained, trace
\* capture is disabled and the handle released before the process exits
C8_TeardownOnEveryExit ==
    pc = "exit" /\ stlink.handle # "none"
        => /\ HasCalled("stlink_trace_disable")
           /\ HasCalled("stlink_close")
           /\ stlink.handle = "closed"

\* the probe calls EnableTrace makes when it runs to its end under settings s
ExpectedCall(s, st) ==
    CASE st.kind = "force_debug"    -> << "stlink_force_debug" >>
      [] st.kind = "reset"          -> IF s.reset_board THEN << "stlink_reset" >> ELSE <<>>
      [] st.kind = "write"          -> << "write32" >>
      [] st.kind = "trace_enable"   -> << "stlink_trace_enable" >>
      [] st.kind = "prescaler"      -> IF s.core_frequency_mhz # 0
                                       THEN << "write32" >> ELSE <<>>
      [] st.kind = "read_prescaler" -> << "read32" >>

RECURSIVE ExpectedCalls(_, _)
ExpectedCalls(s, n) ==
    IF n = 0 THEN <<>> ELSE ExpectedCalls(s, n - 1) \o ExpectedCall(s, EnableScript[n])

GuardedCalls == { "stlink_force_debug", "stlink_reset", "stlink_trace_enable" }

FailedWrites == { k \in 1 .. Len(ops) : ops[k].op = "write32" /\ ~ops[k].ok }

\* C9 as stated: without force a failed register write aborts the sequence: no
\* later register write is issued and the sequence reports failure
C9_AbortWithoutForce ==
    ~settings.force =>
        \A k \in FailedWrites :
            /\ \A j \in (k + 1) .. Len(ops) : ops[j].op # "write32"
            /\ pc = "enable_ret" => ~et_ret

\* C9 amended: a failed register write is logged and every remaining step is
\* still attempted, with force or without; the sequence stops early and reports
\* failure exactly when the debug halt, the reset or the probe's trace enable
\* fails without force
C9_WriteFailureLogged ==
    pc = "enable_ret" =>
        /\ et_ret <=> ~(HasFailed(GuardedCalls) /\ ~settings.force)
        /\ et_ret => [ k \in 1 .. Len(ops) |-> ops[k].op ]
                          = ExpectedCalls(settings, Len(EnableScript))
        /\ Cardinality({ k \in 1 .. Len(log) : log[k].msg = "Unable to set address" })
              = Cardinality(FailedWrites)

\* without force a register write failed, the remaining steps were made and
\* EnableTrace returned true
C9_Witness ==
    /\ pc = "enable_ret"
    /\ ~settings.force
    /\ et_ret
    /\ \E k \in FailedWrites : k < Len(ops) /\ ops[k].reg = "DCB_DHCSR"
    /\ ops[Len(ops)].op = "write32"
    /\ ops[Len(ops)].reg = "DCB_DEMCR"

LoggedMsg(msg) == \E k \in 1 .. Len(log) : log[k].msg = msg

\* the exit code of the first startup check that failed, in program order
FirstFailingCheck ==
    IF LoggedMsg("Unknown command line argument") THEN 1
    ELSE IF settings.show_help \/ settings.show_version THEN 0
    ELSE IF stlink.handle = "none" THEN 2
    ELSE IF ~stlink.chip_known THEN 3
    ELSE IF ~stlink.has_trace THEN 5
    ELSE IF ~stlink.has_swo THEN 4
    ELSE IF HasFailed(GuardedCalls \cup { "stlink_run" }) THEN 6
    ELSE 0

\* C10: without force the exit code is the code of the first failing startup
\* check in program order (1 options, 2 no probe, 3 no target, 5 no trace
\* capability, 4 chip without SWO, 6 trace enable or run), and 0 when none failed
\* or help or version was requested
C10_FirstFailingCheck ==
    pc = "exit" /\ ~settings.force => exit_code = FirstFailingCheck

\* a probe lacking trace capability on a chip without SWO: the exit code names
\* the earlier check
C10_Witness ==
    /\ pc = "exit"
    /\ ~settings.force
    /\ stlink.handle = "open"
    /\ stlink.chip_known
    /\ ~stlink.has_trace
    /\ ~stlink.has_swo
    /\ exit_code = 5

-----------------------------------------------------------------------------
(* Claims about the serial number *)

\* the call has written only inside binary_out and read the text up to its NUL
SerialInBounds ==
    /\ serial.writes \subseteq 0 .. (STLINK_SERIAL_MAX_SIZE - 1)
    /\ serial.length <= STLINK_SERIAL_MAX_SIZE
    /\ serial.writes = 0 .. (serial.length - 1)
    /\ serial.reads \subseteq 0 .. Len(serial.text)

\* C11: for every serial text (empty, odd length, with characters that are no hex
\* digits, longer than two characters per byte) the conversion returns, writes
\* only to indices below STLINK_SERIAL_MAX_SIZE, at most that many bytes, and
\* reads no character behind the terminating NUL
C11_SerialInBounds == []SerialInBounds /\ <>(pc = "serial_done")

\* a text of odd length with a character that is no hex digit: the last turn read
\* the NUL and stopped there
C11_Witness ==
    /\ pc = "serial_done"
    /\ serial.text = << "f", "g", "1" >>
    /\ serial.reads = 0 .. 3
    /\ serial.binary_out[0] = 15
    /\ serial.binary_out[1] = 1

-----------------------------------------------------------------------------
(* Claims about cancellation *)

\* C12: the signal handler may set the flag at any point of the poll loop; a read
\* is started only right after the loop's test found the flag clear; a chunk whose
\* decoding has begun is fed to the decoder completely and in order, flag or not;
\* with the flag set the loop's test leaves the loop; and once the flag is set the
\* session reaches its end, the read in flight returning
C12_CooperativeCancel ==
    /\ [][ /\ pc' = "read" /\ pc # "read"
                 => pc = "loop" /\ ~g_abort_trace
           /\ pc = "decode" /\ i < Len(buffer)
                 => /\ pc' = "decode"
                    /\ buffer' = buffer
                    /\ \/ i' = i /\ fed' = fed
                       \/ i' = i + 1 /\ fed' = Append(fed, buffer[i + 1])
           /\ pc = "loop" /\ g_abort_trace
                 => pc' \in { "loop", "teardown" }
           /\ pc \in { "teardown", "exit" }
                 => pc' \in { "teardown", "exit" } ]_vars
    /\ (g_abort_trace ~> pc = "exit")

\* the flag is set while the second byte of a chunk is still to be decoded
C12_Witness ==
    /\ g_abort_trace
    /\ pc = "decode"
    /\ Len(buffer) = 2
    /\ i = 1

-----------------------------------------------------------------------------
(* Claims about the order of the register programming sequence *)

\* the positions in ops of the register writes to one of regs
WritesTo(regs) ==
    { k \in 1 .. Len(ops) : ops[k].op = "write32" /\ ops[k].reg \in regs }

\* a probe call named name was issued before position k
CalledBefore(name, k) == \E j \in 1 .. (k - 1) : ops[j].op = name

\* C13: whatever force, reset and clock are, and whichever calls fail, the debug
\* halt is requested before any register write, the probe is asked to enter trace
\* capture before the writes of the port size and the prescaler, and ITM_LAR is
\* written before every write of ITM_TCC, ITM_TCR, ITM_TER and ITM_TPR
C13_LoadBearingOrder ==
    /\ \A k \in 1 .. Len(ops) :
          ops[k].op = "write32" => CalledBefore("stlink_force_debug", k)
    /\ \A k \in WritesTo({ "TPI_CSPSR", "TPI_ACPR" }) :
          CalledBefore("stlink_trace_enable", k)
    /\ \A k \in WritesTo({ "ITM_TCC", "ITM_TCR", "ITM_TER", "ITM_TPR" }) :
          \E j \in WritesTo({ "ITM_LAR" }) : j < k

\* a forced sequence without reset and with a clock ran to its end although the
\* debug halt failed
C13_Witness ==
    /\ pc = "enable_ret"
    /\ et_ret
    /\ settings.force
    /\ ~settings.reset_board
    /\ settings.core_frequency_mhz # 0
    /\ HasFailed({ "stlink_force_debug" })
    /\ WritesTo({ "TPI_ACPR" }) # {}
    /\ WritesTo({ "ITM_TPR" }) # {}

-----------------------------------------------------------------------------
(* Claims about the events of the decoder *)

\* the sum of the four event counters
EventCount ==
    trace.count_target_data + trace.count_time_packets
        + trace.count_overflow + trace.count_error

\* C14: in every reachable state and for every byte, a byte passed to the decoder
\* increments at most one of count_target_data, count_time_packets,
\* count_overflow and count_error, by one, and decrements none
C14_OneEventPerByte ==
    [][ Feeding =>
          /\ EventCount' - EventCount \in { 0, 1 }
          /\ trace'.count_target_data >= trace.count_target_data
          /\ trace'.count_time_packets >= trace.count_time_packets
          /\ trace'.count_overflow >= trace.count_overflow
          /\ trace'.count_error >= trace.count_error ]_vars

\* the byte 0x70 counted as a timestamp only, an extension header counted
\* nowhere, an unknown opcode counted as an error only
C14_Witness ==
    /\ fed = << 112, 8, 0 >>
    /\ Counters = << 0, 1, 0, 1 >>

\* C15: a byte is written to stdout only when it is received in
\* TRACE_STATE_TARGET_SOURCE, that byte and no other, and the decoder then is in
\* TRACE_STATE_IDLE; a byte received in any other state is not written; in every
\* reachable state the number of bytes written equals count_target_data
C15_OutputOnlyFromTargetSource ==
    /\ [](Len(out) = trace.count_target_data)
    /\ [][ IF Feeding /\ trace.state = TRACE_STATE_TARGET_SOURCE
           THEN /\ out' = Append(out, Fed)
                /\ trace'.state = TRACE_STATE_IDLE
           ELSE out' = out ]_vars

\* of two payload bytes 0x0a the one of the target packet was written, the one of
\* the packet of source 1 was not
C15_Witness ==
    /\ fed = << 1, 10, 9, 10 >>
    /\ out = << 10 >>
    /\ trace.count_target_data = 1
    /\ trace.state = TRACE_STATE_IDLE

-----------------------------------------------------------------------------
(* Claims about the prescaler *)

\* the integer core_clock_mhz * 10^6 / STLINK_TRACE_FREQUENCY - 1; the trace
\* frequency is a whole number of MHz
ExactPrescaler(mhz) == mhz \div (STLINK_TRACE_FREQUENCY \div 1000000) - 1

\* C16 as stated: whenever a clock is given, the value written to TPI_ACPR is the
\* integer core_clock_mhz * 10^6 / STLINK_TRACE_FREQUENCY - 1, for clocks below
\* the trace frequency and for large clocks too: nothing wraps around
C16_PrescalerExact ==
    \A k \in WritesTo({ "TPI_ACPR" }) :
        /\ ExactPrescaler(settings.core_frequency_mhz) >= 0
        /\ ops[k].val = U32(ExactPrescaler(settings.core_frequency_mhz))

ReadBacks == { k \in 1 .. Len(ops) : ops[k].op = "read32" /\ ops[k].reg = "TPI_ACPR" }

\* C17 as stated: the prescaler is read back, and the clock reported or the
\* warning issued, only when no clock was given; with a clock the warning is
\* never issued
C17_ReadBackOnlyWithoutClock ==
    settings.core_frequency_mhz # 0 =>
        /\ ReadBacks = {}
        /\ ~LoggedMsg("Trace Port Interface not configured")

\* C17 amended: a sequence that runs to its end reads the prescaler back once,
\* with a clock or without, after the write of the computed prescaler, which is
\* made exactly when a clock is given; it reports the implied clock exactly when
\* the value read is not zero and warns exactly when it is zero
C17_ReadBackAlways ==
    /\ WritesTo({ "TPI_ACPR" }) # {} => settings.core_frequency_mhz # 0
    /\ pc = "enable_ret" /\ et_ret /\ settings.core_frequency_mhz # 0
          => WritesTo({ "TPI_ACPR" }) # {}
    /\ pc = "enable_ret" /\ et_ret => Cardinality(ReadBacks) = 1
    /\ \A k \in ReadBacks :
          /\ \A j \in WritesTo({ "TPI_ACPR" }) : j < k
          /\ LoggedMsg("Trace Port Interface not configured") <=> ops[k].val = U32(0)
          /\ LoggedMsg("Trace Port Interface configured to expect MHz")
                <=> ops[k].val # U32(0)

\* --clock=2 was given: the prescaler written and read back is 0 and the warning
\* was issued
C17_Witness ==
    /\ pc = "enable_ret"
    /\ et_ret
    /\ settings.core_frequency_mhz = 2
    /\ faults = 0
    /\ \E k \in ReadBacks : ops[k].val = U32(0)
    /\ LoggedMsg("Trace Port Interface not configured")

-----------------------------------------------------------------------------
(* Claims about the thresholds of the diagnostics heuristic *)

\* the heuristic evaluates in this step: it sets the one-shot flag
Evaluates == ~trace.configuration_checked /\ trace'.configuration_checked

\* the thresholds, on the counters of t
ThresholdMissed(t) ==
    \/ t.count_raw_bytes < 100
    \/ t.count_error > 1
    \/ t.count_time_packets < 10

ReportedValue(l, msg) == { l[k].arg : k \in { j \in 1 .. Len(l) : l[j].msg = msg } }

\* C18: the heuristic evaluates in the first poll with at least 10 s elapsed; in
\* that step it reports if and only if count_raw_bytes < 100 or count_error > 1
\* or count_time_packets < 10 holds of the counters of that moment, and the
\* report shows those counters; no other step reports, whatever the counters
\* were before or become after; and the heuristic changes no counter, parser
\* state or seen set
C18_ThresholdsAtEvaluation ==
    [][ /\ Evaluates
              => /\ Reports(log') = Reports(log) + 1 <=> ThresholdMissed(trace)
                 /\ Reports(log') # Reports(log)
                       => /\ ReportedValue(log', "Raw Bytes") = { trace.count_raw_bytes }
                          /\ ReportedValue(log', "Errors") = { trace.count_error }
                          /\ ReportedValue(log', "Time Packets")
                                = { trace.count_time_packets }
        /\ ~Evaluates => Reports(log') = Reports(log)
        /\ pc = "check" /\ pc' = "loop"
              => /\ Evaluates <=> /\ ~trace.configuration_checked
                                  /\ Sub32(now, trace.start_time) >= 10
                 /\ trace' = [trace EXCEPT !.configuration_checked = trace'.configuration_checked]
                 /\ out' = out ]_vars

\* the heuristic evaluated on counters that miss no threshold and did not report
C18_Witness ==
    /\ trace.configuration_checked
    /\ Reports(log) = 0
    /\ trace.count_raw_bytes = 100
    /\ trace.count_error = 1
    /\ trace.count_time_packets = 10

-----------------------------------------------------------------------------
(* Claims about the session's way to Running *)

\* the probe calls of startup whose failure main or EnableTrace tests
StartupCalls == GuardedCalls \cup { "stlink_run" }

\* the message logged when the call fails
FailureMsg(name) ==
    CASE name = "stlink_force_debug"  -> "Unable to debug device"
      [] name = "stlink_reset"        -> "Unable to reset device"
      [] name = "stlink_trace_enable" -> "Unable to turn on tracing in stlink"
      [] name = "stlink_run"          -> "Unable to run device"

\* the session is or has been in the poll loop
ReachedRunning == LoggedMsg("Reading Trace")

\* C19: without force, once the debug halt, the reset, the probe's trace enable or
\* the run of the target has failed, the session does not get to Running: the
\* poll loop is not entered, no trace is read and nothing is decoded, and main
\* returns the state error; with force each such failure is logged and the
\* session does not end before it has been in Running
C19_UnforcedFailureStopsStartup ==
    /\ ~settings.force /\ HasFailed(StartupCalls)
          => /\ pc \in { "enable_ret", "exit" }
             /\ ~ReachedRunning
             /\ fed = <<>>
             /\ pc = "exit" => exit_code = APP_RESULT_STLINK_STATE_ERROR
    /\ \A name \in StartupCalls :
          Cardinality({ k \in 1 .. Len(ops) : ops[k].op = name /\ ~ops[k].ok })
              = Cardinality({ k \in 1 .. Len(log) : log[k].msg = FailureMsg(name) })
    /\ settings.force /\ HasFailed(StartupCalls) /\ pc = "exit" => ReachedRunning

\* with force the probe's trace enable failed and the session decoded a byte
C19_Witness ==
    /\ settings.force
    /\ HasFailed({ "stlink_trace_enable" })
    /\ LoggedMsg("Unable to turn on tracing in stlink")
    /\ pc = "check"
    /\ Len(fed) = 1

-----------------------------------------------------------------------------
(* Claims about the chunks of the byte stream *)

\* the messages of the decoder in a log
DecoderLog(l) == SelectSeq(l, LAMBDA m : m.lvl = "W")

\* C20: however the reads cut the byte stream into chunks, and however many empty
\* reads lie between them, the parser state, the counters, the two seen sets,
\* stdout and the decoder's warnings are those of one chunk holding all the
\* bytes decoded so far; an empty read changes nothing of them
C20_ChunkingIrrelevant ==
    /\ [](LET one == Replay(fed)
          IN  /\ trace = one.trace
              /\ out = one.out
              /\ flushed = one.flushed
              /\ DecoderLog(log) = one.log)
    /\ [][ pc = "read" /\ pc' = "check"
              => /\ trace' = trace
                 /\ out' = out
                 /\ flushed' = flushed
                 /\ log' = log ]_vars

\* a target packet whose header and payload came in two reads
C20_Witness ==
    /\ pc = "decode"
    /\ Len(buffer) = 1
    /\ i = 1
    /\ fed = << 1, 9 >>
    /\ out = << 9 >>

-----------------------------------------------------------------------------
(* Claims about a failed read *)

\* a read of the session has reported a negative length
ReadFailed == LoggedMsg("Error reading trace")

\* C21: when stlink_trace_read reports a negative length in the poll loop, the
\* step that logs the error decodes no byte and leaves the decoder, stdout and the
\* heuristic's flag alone; from then on the session is out of the loop, so no
\* byte is decoded and CheckForConfigurationError is not called again; teardown
\* disables trace capture and closes the probe, in this order, as the last two
\* probe calls; and the session reaches its exit with code 0
C21_ReadErrorEndsSession ==
    /\ [](ReadFailed => pc \in { "teardown", "exit" })
    /\ [][ ReadFailed'
              => /\ trace' = trace
                 /\ out' = out
                 /\ flushed' = flushed
                 /\ fed' = fed
                 /\ buffer' = <<>>
                 /\ ReadFailed => log' = log
                 /\ ~ReadFailed => pc = "read" /\ ops' = ops /\ Len(log') = Len(log) + 1 ]_vars
    /\ [](ReadFailed /\ pc = "exit"
              => /\ exit_code = APP_RESULT_SUCCESS
                 /\ exit_code = 0
                 /\ ~stlink.tracing
                 /\ stlink.handle = "closed"
                 /\ Len(ops) >= 2
                 /\ ops[Len(ops) - 1].op = "stlink_trace_disable"
                 /\ ops[Len(ops)].op = "stlink_close")
    /\ (ReadFailed ~> pc = "exit")

\* a session that decoded a byte, then met a read error without any signal, and
\* has exited
C21_Witness ==
    /\ ReadFailed
    /\ pc = "exit"
    /\ ~g_abort_trace
    /\ fed # <<>>

====
